---- MODULE Spec2Model ----
(***************************************************************************)
(* Model of cocotbext-umi: the SUMI command header, the SumiTransaction    *)
(* model (header_to_bytes, to_lumi), the SumiMonitor's decoding of one bus *)
(* sample and the UmiMemoryDevice that answers read / write requests       *)
(* against a sparse byte store.                                            *)
(*                                                                         *)
(* Conventions.  A Python bytes object is a sequence of integers 0..255.   *)
(* Python's None for an optional payload is the sequence NoneData, which   *)
(* no bytes object equals.  The store (a dict) is a function whose domain  *)
(* is the set of written addresses.                                        *)
(***************************************************************************)
EXTENDS Integers, Sequences, FiniteSets, TLC

\* ------------------------------------------------------------------ bounds
MaxAddr == 1        \* bus addresses are drawn from 0..MaxAddr
MaxByte == 1        \* payload bytes on the bus are drawn from 0..MaxByte
MaxSize == 1        \* SIZE field of a sampled command, 0..MaxSize
MaxLen == 1         \* LEN field of a sampled command, 0..MaxLen
MaxReqs == 2        \* bus handshakes sampled by the monitor
MaxDirect == 1      \* calls of the direct accessors read/write/dump/clear
MaxData == 2        \* length of the data passed to the direct write()
MaxLumi == 3        \* lumi_size passed to to_lumi, 1..MaxLumi
MaxPayload == 3     \* payload length of a transaction handed to to_lumi
MaxEqData == 2      \* payload length of the transactions compared by ==

\* ------------------------------------------------------------ Python values
NoneData == <<-1>>

IsNone(d) == d = NoneData

Min(a, b) == IF a < b THEN a ELSE b

Pow2(k) == 2 ^ k

\* ceil(a / b) for a >= 0, b >= 1
CeilDiv(a, b) == (a + b - 1) \div b

Zeros(n) == [i \in 1..n |-> 0]

\* Python slice s[:n] of a bytes object
Prefix(s, n) == SubSeq(s, 1, Min(n, Len(s)))

\* --------------------------------------------------------------- SumiCmdType
UMI_INVALID == 0
UMI_REQ_READ == 1
UMI_REQ_WRITE == 3
UMI_REQ_POSTED == 5
UMI_REQ_RDMA == 7
UMI_REQ_ATOMIC == 9
UMI_REQ_USER0 == 11
UMI_REQ_FUTURE0 == 13
UMI_REQ_ERROR == 15
UMI_REQ_LINK == 47
UMI_RESP_READ == 2
UMI_RESP_WRITE == 4
UMI_RESP_USER0 == 6
UMI_RESP_USER1 == 8
UMI_RESP_FUTURE0 == 10
UMI_RESP_FUTURE1 == 12
UMI_RESP_LINK == 14

supports_streaming(value) ==
    value \in {UMI_REQ_WRITE, UMI_REQ_POSTED, UMI_RESP_READ}

\* mutant: the link-control request is missing from the list
is_request_without_link(value) ==
    value \in {UMI_REQ_READ, UMI_REQ_WRITE, UMI_REQ_POSTED, UMI_REQ_RDMA,
               UMI_REQ_ATOMIC, UMI_REQ_USER0, UMI_REQ_FUTURE0, UMI_REQ_ERROR}

is_request(value) ==
    value \in {UMI_REQ_READ, UMI_REQ_WRITE, UMI_REQ_POSTED, UMI_REQ_RDMA,
               UMI_REQ_ATOMIC, UMI_REQ_USER0, UMI_REQ_FUTURE0, UMI_REQ_ERROR,
               UMI_REQ_LINK}

is_response(value) ==
    value \in {UMI_RESP_READ, UMI_RESP_WRITE, UMI_RESP_USER0, UMI_RESP_USER1,
               UMI_RESP_FUTURE0, UMI_RESP_FUTURE1, UMI_RESP_LINK}

has_data(value) ==
    value \in {UMI_REQ_WRITE, UMI_REQ_POSTED, UMI_REQ_ATOMIC, UMI_REQ_USER0,
               UMI_REQ_FUTURE0, UMI_RESP_READ, UMI_RESP_USER1,
               UMI_RESP_FUTURE1}

has_source_addr(value) ==
    value \in {UMI_REQ_READ, UMI_REQ_WRITE, UMI_REQ_POSTED, UMI_REQ_RDMA,
               UMI_REQ_ATOMIC, UMI_REQ_USER0, UMI_REQ_FUTURE0, UMI_REQ_ERROR}

\* ------------------------------------------------------------------- SumiCmd
\* mutant: the size field declared one bit too low, over the opcode's top bit
CmdFields_size_overlaps ==
    << [name |-> "cmd_type", width |-> 5, offset |-> 0],
       [name |-> "size",     width |-> 3, offset |-> 4],
       [name |-> "len",      width |-> 8, offset |-> 8],
       [name |-> "qos",      width |-> 4, offset |-> 16],
       [name |-> "prot",     width |-> 2, offset |-> 20],
       [name |-> "eom",      width |-> 1, offset |-> 22],
       [name |-> "eof",      width |-> 1, offset |-> 23],
       [name |-> "ex",       width |-> 1, offset |-> 24],
       [name |-> "u",        width |-> 2, offset |-> 25],
       [name |-> "hostid",   width |-> 5, offset |-> 27] >>

\* The declared bit fields of the 32-bit command header: name, width, offset.
CmdFields ==
    << [name |-> "cmd_type", width |-> 5, offset |-> 0],
       [name |-> "size",     width |-> 3, offset |-> 5],
       [name |-> "len",      width |-> 8, offset |-> 8],
       [name |-> "qos",      width |-> 4, offset |-> 16],
       [name |-> "prot",     width |-> 2, offset |-> 20],
       [name |-> "eom",      width |-> 1, offset |-> 22],
       [name |-> "eof",      width |-> 1, offset |-> 23],
       [name |-> "ex",       width |-> 1, offset |-> 24],
       [name |-> "u",        width |-> 2, offset |-> 25],
       [name |-> "hostid",   width |-> 5, offset |-> 27] >>

CmdWidth == 32

\* A 32-bit wire word is a function from bit position 0..31 to {0, 1}.
BitOf(v, k) == (v \div Pow2(k)) % 2

\* BitVector pack: OR of (value & mask) << offset over the fields.
pack(h) ==
    [b \in 0..(CmdWidth - 1) |->
        IF \E i \in 1..Len(CmdFields) :
              /\ b >= CmdFields[i].offset
              /\ b < CmdFields[i].offset + CmdFields[i].width
              /\ BitOf(h[CmdFields[i].name] % Pow2(CmdFields[i].width),
                       b - CmdFields[i].offset) = 1
        THEN 1 ELSE 0]

RECURSIVE BitsValue(_, _, _)
\* the unsigned value of bits w[lo], w[lo+1], ... w[lo+n-1], w[lo] lowest
BitsValue(w, lo, n) ==
    IF n = 0 THEN 0 ELSE w[lo] + 2 * BitsValue(w, lo + 1, n - 1)

FieldIndex(name) == CHOOSE i \in 1..Len(CmdFields) : CmdFields[i].name = name

\* BitVector unpack: value = (integer >> offset) & mask for every field.
unpack(w) ==
    [name \in {CmdFields[i].name : i \in 1..Len(CmdFields)} |->
        BitsValue(w, CmdFields[FieldIndex(name)].offset,
                  CmdFields[FieldIndex(name)].width)]

\* bytes(cmd): the packed word as 4 little-endian bytes
cmd_to_bytes(h) ==
    LET w == pack(h)
    IN  [j \in 1..(CmdWidth \div 8) |-> BitsValue(w, 8 * (j - 1), 8)]

\* SumiCmd.from_fields: the named fields, every other field 0
from_fields(cmd_type, size, len, eom) ==
    [cmd_type |-> cmd_type, size |-> size, len |-> len, qos |-> 0, prot |-> 0,
     eom |-> eom, eof |-> 0, ex |-> 0, u |-> 0, hostid |-> 0]

\* BitField construction rejects a value that does not fit its width
InvalidFieldValue(h) ==
    \E i \in 1..Len(CmdFields) :
       h[CmdFields[i].name] >= Pow2(CmdFields[i].width)

\* SumiCmd.from_int
from_int(w) == unpack(w)

bytes_per_word(cmd) == Pow2(cmd.size)

transfer_count(cmd) == cmd.len + 1

total_bytes(cmd) == bytes_per_word(cmd) * transfer_count(cmd)

\* mutant: the shift binds tighter than the addition, len + (1 << size)
ShiftedLen_shift_first(cmd) == cmd.len + Pow2(cmd.size)

\* (len + 1) << size, as the handlers, to_lumi and the monitor compute it
ShiftedLen(cmd) == (cmd.len + 1) * Pow2(cmd.size)

\* ----------------------------------------------------------- SumiTransaction
SumiTransaction(cmd, da, sa, data, addr_width) ==
    [cmd |-> cmd, da |-> da, sa |-> sa, data |-> data, addr_width |-> addr_width]

\* int.to_bytes(v, length=n, byteorder='little')
int_to_bytes(v, n) == [j \in 1..n |-> (v \div Pow2(8 * (j - 1))) % 256]

\* mutant: the source address is left out when the opcode has none
header_without_unused_sa(t) ==
    IF has_source_addr(t.cmd.cmd_type)
    THEN cmd_to_bytes(t.cmd)
            \o int_to_bytes(t.da, t.addr_width \div 8)
            \o int_to_bytes(t.sa, t.addr_width \div 8)
    ELSE cmd_to_bytes(t.cmd) \o int_to_bytes(t.da, t.addr_width \div 8)

header_to_bytes(t) ==
    cmd_to_bytes(t.cmd)
        \o int_to_bytes(t.da, t.addr_width \div 8)
        \o int_to_bytes(t.sa, t.addr_width \div 8)

\* mutant: write responses are compared on both addresses
eq_both_addresses(a, b) ==
    IF pack(a.cmd) = pack(b.cmd)
    THEN IF a.cmd.cmd_type = UMI_RESP_WRITE
         THEN [raised |-> "none", result |-> a.da = b.da /\ a.sa = b.sa]
         ELSE IF IsNone(a.data) \/ IsNone(b.data)
              THEN [raised |-> "TypeError", result |-> FALSE]
              ELSE [raised |-> "none",
                    result |-> header_to_bytes(a) \o a.data
                                  = header_to_bytes(b) \o b.data]
    ELSE [raised |-> "none", result |-> FALSE]

\* SumiTransaction.__eq__ for two SumiTransactions: the packed commands must
\* match; a write response is compared on da alone, anything else on
\* header_to_bytes() + data, the whole of data.  bytes + None raises.
__eq__(a, b) ==
    IF pack(a.cmd) = pack(b.cmd)
    THEN IF a.cmd.cmd_type = UMI_RESP_WRITE
         THEN [raised |-> "none", result |-> a.da = b.da]
         ELSE IF IsNone(a.data) \/ IsNone(b.data)
              THEN [raised |-> "TypeError", result |-> FALSE]
              ELSE [raised |-> "none",
                    result |-> header_to_bytes(a) \o a.data
                                  = header_to_bytes(b) \o b.data]
    ELSE [raised |-> "none", result |-> FALSE]

\* trunc_and_pad_zeros: the payload it leaves in self.data, and the exception
\* raised ("none" when it returns); len(None) raises.  [0] * k is empty for
\* k <= 0.
trunc_and_pad_zeros(t) ==
    IF IsNone(t.data)
    THEN [raised |-> "TypeError", data |-> t.data]
    ELSE LET data_len == ShiftedLen(t.cmd)
         IN  [raised |-> "none",
              data |-> Zeros(Len(t.data) - data_len) \o Prefix(t.data, data_len)]

\* A frame handed to the transport (VRDTransaction): data and the last flag.
VRDTransaction(data, last) == [data |-> data, last |-> last]

\* chunk k (0-based) of raw[i:i+lumi_size] for i in range(0, len(raw), lumi_size)
Chunk(raw, lumi_size, k) ==
    SubSeq(raw, k * lumi_size + 1, Min((k + 1) * lumi_size, Len(raw)))

\* mutant: the chunk count rounded down, the partial final chunk lost
NumChunks_floor(raw, lumi_size) == Len(raw) \div lumi_size

NumChunks(raw, lumi_size) == CeilDiv(Len(raw), lumi_size)

\* override_last is <<>> when not supplied (None) and <<b>> when supplied.
\* The result is the exception raised ("none" when the call returns) and the
\* list of frames returned.
\* mutant: override_last replaces the last flag of every frame
Frames_override_all(raw, lumi_size, override_last) ==
    LET n == NumChunks(raw, lumi_size)
        padded(k) ==
            IF k = n - 1
            THEN Chunk(raw, lumi_size, k)
                     \o Zeros(lumi_size - Len(Chunk(raw, lumi_size, k)))
            ELSE Chunk(raw, lumi_size, k)
        lastflag(k) ==
            IF override_last # <<>> THEN override_last[1] ELSE k = n - 1
    IN  IF n = 0
        THEN [raised |-> "IndexError", frames |-> <<>>]
        ELSE [raised |-> "none",
              frames |-> [i \in 1..n |->
                             VRDTransaction(padded(i - 1), lastflag(i - 1))]]

\* The chunking of raw: chunks[-1] fails on an empty list of chunks.
Frames(raw, lumi_size, override_last) ==
    LET n == NumChunks(raw, lumi_size)
        padded(k) ==
            IF k = n - 1
            THEN Chunk(raw, lumi_size, k)
                     \o Zeros(lumi_size - Len(Chunk(raw, lumi_size, k)))
            ELSE Chunk(raw, lumi_size, k)
        lastflag(k) ==
            IF k = n - 1 /\ override_last # <<>>
            THEN override_last[1]
            ELSE k = n - 1
    IN  IF n = 0
        THEN [raised |-> "IndexError", frames |-> <<>>]
        ELSE [raised |-> "none",
              frames |-> [i \in 1..n |->
                             VRDTransaction(padded(i - 1), lastflag(i - 1))]]

to_lumi(t, lumi_size, inc_header, override_last) ==
    IF IsNone(t.data)
    THEN [raised |-> "TypeError", frames |-> <<>>]
    ELSE
      LET payload == Prefix(t.data, ShiftedLen(t.cmd))
          raw == IF inc_header THEN header_to_bytes(t) \o payload ELSE payload
      IN  Frames(raw, lumi_size, override_last)

\* TumiTransaction.to_sumi(data_bus_size, addr_width) as the device uses it:
\* the response is split for a transport of data_bus_size bytes, header
\* included.
to_sumi(cmd, da, sa, data, data_bus_size, addr_width) ==
    to_lumi(SumiTransaction(cmd, da, sa, data, addr_width),
            data_bus_size, TRUE, <<>>).frames

\* ------------------------------------------------------------- memory store
\* dict.get(a, 0)
Get(m, a) == IF a \in DOMAIN m THEN m[a] ELSE 0

\* mutant: an address that already holds a byte keeps it
StoreBytes_keep_first(m, address, data) ==
    [a \in DOMAIN m \cup {address + i - 1 : i \in 1..Len(data)} |->
        IF a \in DOMAIN m
        THEN m[a]
        ELSE data[a - address + 1]]

\* for i, byte in enumerate(data): m[address + i] = byte
StoreBytes(m, address, data) ==
    [a \in DOMAIN m \cup {address + i - 1 : i \in 1..Len(data)} |->
        IF a >= address /\ a < address + Len(data)
        THEN data[a - address + 1]
        ELSE m[a]]

\* mutant: the fetch starts one address too high
FetchBytes_off_by_one(m, address, length) ==
    [i \in 1..length |-> Get(m, address + i)]

\* bytes(m.get(address + i, 0) for i in range(length))
FetchBytes(m, address, length) ==
    [i \in 1..length |-> Get(m, address + i - 1)]

EmptyStore == [a \in {} |-> 0]

\* --------------------------------------------------------- UmiMemoryDevice
\* The response object built by _handle_read before it is split.
TumiTransaction(cmd, da, sa, data) ==
    [cmd |-> cmd, da |-> da, sa |-> sa, data |-> data]

\* What one call of a handler does: the store after it, the items appended
\* to the driver, the response object it built (<<>> if none), the number of
\* log.warning calls, and the exception that escapes it ("none" if it returns).
\* _handle_write: the loop stores data[i] for i in range(data_size) and fails
\* at the first index the payload does not have, leaving the bytes before it
\* stored.  A None payload fails before any byte is stored, in the log line
\* when there is a logger (lg) and at data[0] when there is none.
_handle_write(m, lg, t, send_response) ==
    LET dstaddr == t.da
        data == t.data
        data_size == ShiftedLen(t.cmd)
        exc == IF IsNone(data) THEN "TypeError"
               ELSE IF Len(data) < data_size THEN "IndexError"
               ELSE "none"
        stored == IF IsNone(data) THEN <<>> ELSE Prefix(data, data_size)
        resp_cmd == from_fields(UMI_RESP_WRITE, 0, 0, 1)
        resp_txn == SumiTransaction(resp_cmd, t.sa, t.da, <<0>>, t.addr_width)
        sent == IF exc = "none" /\ send_response THEN <<resp_txn>> ELSE <<>>
    IN  [memory |-> StoreBytes(m, dstaddr, stored),
         out |-> sent,
         resp |-> sent,
         warned |-> 0,
         raised |-> exc]

\* mutant: the read inserts a zero entry for every address it finds missing
_handle_read_setdefault(m, t, bus_width, addr_width) ==
    LET srcaddr == t.da
        size == t.cmd.size
        length == t.cmd.len
        data_size == ShiftedLen(t.cmd)
        data == FetchBytes(m, srcaddr, data_size)
        resp_cmd == from_fields(UMI_RESP_READ, size, length, 1)
        tumi_trans == TumiTransaction(resp_cmd, t.sa, t.da, data)
    IN  [memory |-> StoreBytes(m, srcaddr, data),
         out |-> to_sumi(resp_cmd, t.sa, t.da, data, bus_width \div 8, addr_width),
         resp |-> <<tumi_trans>>,
         warned |-> 0,
         raised |-> "none"]

_handle_read(m, t, bus_width, addr_width) ==
    LET srcaddr == t.da
        size == t.cmd.size
        length == t.cmd.len
        data_size == ShiftedLen(t.cmd)
        data == FetchBytes(m, srcaddr, data_size)
        resp_cmd == from_fields(UMI_RESP_READ, size, length, 1)
        tumi_trans == TumiTransaction(resp_cmd, t.sa, t.da, data)
    IN  [memory |-> m,
         out |-> to_sumi(resp_cmd, t.sa, t.da, data, bus_width \div 8, addr_width),
         resp |-> <<tumi_trans>>,
         warned |-> 0,
         raised |-> "none"]

_on_transaction(m, lg, t, bus_width, addr_width) ==
    LET cmd_type == t.cmd.cmd_type
    IN  IF cmd_type = UMI_REQ_WRITE THEN _handle_write(m, lg, t, TRUE)
        ELSE IF cmd_type = UMI_REQ_POSTED THEN _handle_write(m, lg, t, FALSE)
        ELSE IF cmd_type = UMI_REQ_READ THEN _handle_read(m, t, bus_width, addr_width)
        ELSE [memory |-> m,
              out |-> <<>>,
              resp |-> <<>>,
              warned |-> IF lg THEN 1 ELSE 0,
              raised |-> "none"]

\* the direct accessors
read(m, address, length) == FetchBytes(m, address, length)

\* mutant: the bytes land one address too high
write_off_by_one(m, address, data) == StoreBytes(m, address + 1, data)

write(m, address, data) == StoreBytes(m, address, data)

RECURSIVE SortedItems(_, _)
SortedItems(m, S) ==
    IF S = {} THEN <<>>
    ELSE LET a == CHOOSE x \in S : \A y \in S : x <= y
         IN  <<<<a, m[a]>>>> \o SortedItems(m, S \ {a})

dump_memory(m) == SortedItems(m, DOMAIN m)

\* mutant: clear() leaves the store as it is
clear_noop(m) == m

clear(m) == EmptyStore

\* --------------------------------------------------------------- SumiMonitor
\* The data bus as sampled: dw/8 bytes, low byte first, or NoneData when the
\* sampled bits are not resolvable (X or Z).
BusData(width) == [1..(width \div 8) -> 0..MaxByte] \cup {NoneData}

\* _monitor_recv's decoding of one handshake into a SumiTransaction
Decode(word, dstaddr, srcaddr, busdata, data_width, addr_width) ==
    LET sumi_cmd == from_int(word)
        data_bits == Min(ShiftedLen(sumi_cmd) * 8, data_width)
        data_bytes == IF has_data(sumi_cmd.cmd_type) /\ ~IsNone(busdata)
                      THEN SubSeq(busdata, 1, data_bits \div 8)
                      ELSE NoneData
    IN  SumiTransaction(sumi_cmd, dstaddr, srcaddr, data_bytes, addr_width)

\* mutant: the new items are put in front of the queue
driver_prepend(queue, items) == items \o queue

\* self.driver.append(item) for every item of items, in order
driver_append(queue, items) == queue \o items

\* -------------------------------------------------------------------- state
VARIABLES
    memory,     \* UmiMemoryDevice.memory: written address -> byte
    sink,       \* the items appended to the driver, in order
    sink_req,   \* for every item of sink, the number of the request it answers
    log,        \* whether the device was constructed with a logger
    warnings,   \* number of log.warning calls made so far
    dw,         \* bus width in bits (driver.get_bus_width, monitor.data_width)
    aw,         \* address width in bits
    alive,      \* the monitor's receive loop is still running
    raised,     \* exception that escaped the last callback, "none" if none
    req,        \* <<t>>: the transaction the last callback was given
    resp,       \* <<r>>: the response object the last callback built
    call,       \* the last operation and its arguments
    ret,        \* the value returned by the last direct accessor
    nreq,       \* handshakes sampled so far
    ndirect,    \* direct accessor calls so far
    written,    \* addresses covered by a write since construction / clear()
    latest,     \* address -> the byte the most recent write since
                \* construction / clear() supplied for it
    ltx,        \* the transaction(s) or header a pure function is called on
    lres        \* the result of the last call of a pure function

vars == <<memory, sink, sink_req, log, warnings, dw, aw, alive, raised, req,
          resp, call, ret, nreq, ndirect, written, latest, ltx, lres>>

devvars == <<memory, sink, sink_req, log, warnings, dw, aw, alive, raised,
             req, resp, ret, nreq, ndirect, written, latest>>

DataWidths == {8, 16}
AddrWidths == {8, 16}

\* the address width of the bus the device sits on
DevAddrWidths == {8}

\* the opcodes sampled on the bus: the three handled ones, one unhandled
\* without data and one unhandled with data
ReqOpcodes == {UMI_REQ_READ, UMI_REQ_WRITE, UMI_REQ_POSTED, UMI_REQ_RDMA,
               UMI_REQ_ATOMIC}

Addrs == 0..MaxAddr

\* the requesting host's own address, outside the device's range
SrcAddrs == {MaxAddr + 1}

\* the command words sampled on the bus
BusWords ==
    {pack(from_fields(opcode, size, len, 0)) :
        opcode \in ReqOpcodes, size \in 0..MaxSize, len \in 0..MaxLen}

\* The bytes a write of n bytes at address supplies: byte i of data for
\* address + i, for every i below n that data has.
Supplied(old, address, data, n) ==
    LET covered == {a \in address..(address + n - 1) : a - address < Len(data)}
    IN  [a \in DOMAIN old \cup covered |->
            IF a \in covered THEN data[a - address + 1] ELSE old[a]]

NoCall == [op |-> "init", address |-> 0, length |-> 0, data |-> <<>>]

NoLumi == [raised |-> "none", frames |-> <<>>, lumi_size |-> 0,
           inc_header |-> FALSE, override_last |-> <<>>]

Init ==
    /\ memory = EmptyStore
    /\ sink = <<>>
    /\ sink_req = <<>>
    /\ log \in BOOLEAN
    /\ warnings = 0
    /\ dw \in DataWidths
    /\ aw \in DevAddrWidths
    /\ alive = TRUE
    /\ raised = "none"
    /\ req = <<>>
    /\ resp = <<>>
    /\ call = NoCall
    /\ ret = <<>>
    /\ nreq = 0
    /\ ndirect = 0
    /\ written = {}
    /\ latest = EmptyStore
    /\ ltx = <<>>
    /\ lres = NoLumi

\* One valid handshake sampled by the monitor: the transaction is decoded and
\* handed to the device's callback, which runs to completion (or raises, which
\* ends the monitor's receive loop).
MonitorRecv(word, dstaddr, srcaddr, busdata) ==
    /\ alive
    /\ nreq < MaxReqs
    /\ \E t \in {Decode(word, dstaddr, srcaddr, busdata, dw, aw)} :
       \E r \in {_on_transaction(memory, log, t, dw, aw)} :
           /\ memory' = r.memory
           /\ sink' = driver_append(sink, r.out)
           /\ sink_req' = sink_req \o [i \in 1..Len(r.out) |-> nreq + 1]
           /\ warnings' = warnings + r.warned
           /\ raised' = r.raised
           /\ alive' = (r.raised = "none")
           /\ req' = <<t>>
           /\ resp' = r.resp
           /\ written' = IF t.cmd.cmd_type \in {UMI_REQ_WRITE, UMI_REQ_POSTED}
                         THEN written \cup
                              {dstaddr + i : i \in 0..(ShiftedLen(t.cmd) - 1)}
                         ELSE written
           /\ latest' = IF t.cmd.cmd_type \in {UMI_REQ_WRITE, UMI_REQ_POSTED}
                           /\ ~IsNone(t.data)
                        THEN Supplied(latest, dstaddr, t.data,
                                      (t.cmd.len + 1) * (2 ^ t.cmd.size))
                        ELSE latest
    /\ call' = [NoCall EXCEPT !.op = "recv"]
    /\ ret' = <<>>
    /\ nreq' = nreq + 1
    /\ UNCHANGED <<log, dw, aw, ndirect, ltx, lres>>

DirectFrame ==
    /\ ndirect < MaxDirect
    /\ ndirect' = ndirect + 1
    /\ req' = <<>>
    /\ resp' = <<>>
    /\ UNCHANGED <<sink, sink_req, log, warnings, dw, aw, alive, raised, nreq,
                   ltx, lres>>

Read(address, length) ==
    /\ DirectFrame
    /\ ret' = read(memory, address, length)
    /\ call' = [NoCall EXCEPT !.op = "read", !.address = address,
                              !.length = length]
    /\ UNCHANGED <<memory, written, latest>>

Write(address, data) ==
    /\ DirectFrame
    /\ memory' = write(memory, address, data)
    /\ written' = written \cup {address + i - 1 : i \in 1..Len(data)}
    /\ latest' = Supplied(latest, address, data, Len(data))
    /\ ret' = <<>>
    /\ call' = [NoCall EXCEPT !.op = "write", !.address = address,
                              !.data = data]

DumpMemory ==
    /\ DirectFrame
    /\ ret' = dump_memory(memory)
    /\ call' = [NoCall EXCEPT !.op = "dump"]
    /\ UNCHANGED <<memory, written, latest>>

Clear ==
    /\ DirectFrame
    /\ memory' = clear(memory)
    /\ written' = {}
    /\ latest' = EmptyStore
    /\ ret' = <<>>
    /\ call' = [NoCall EXCEPT !.op = "clear"]

BytesUpTo(n) == UNION {[1..k -> 0..MaxByte] : k \in 0..n}

Next ==
    \/ \E word \in BusWords, dstaddr \in Addrs, srcaddr \in SrcAddrs,
          busdata \in BusData(dw) :
          MonitorRecv(word, dstaddr, srcaddr, busdata)
    \/ \E address \in Addrs, length \in 0..MaxData : Read(address, length)
    \/ \E address \in Addrs, data \in BytesUpTo(MaxData) : Write(address, data)
    \/ DumpMemory
    \/ Clear

Spec == Init /\ [][Next]_vars

\* ------------------------------------------------- to_lumi as a pure function
LumiTransactions ==
    {SumiTransaction(from_fields(opcode, size, len, 0), da, sa, data, width) :
        opcode \in {UMI_REQ_WRITE, UMI_RESP_READ},
        size \in 0..MaxSize, len \in 0..MaxLen,
        da \in Addrs, sa \in SrcAddrs,
        data \in BytesUpTo(MaxPayload) \cup {NoneData},
        width \in AddrWidths}

InitLumi ==
    /\ memory = EmptyStore
    /\ sink = <<>>
    /\ sink_req = <<>>
    /\ log = FALSE
    /\ warnings = 0
    /\ dw = 8
    /\ aw = 8
    /\ alive = TRUE
    /\ raised = "none"
    /\ req = <<>>
    /\ resp = <<>>
    /\ call = NoCall
    /\ ret = <<>>
    /\ nreq = 0
    /\ ndirect = 0
    /\ written = {}
    /\ latest = EmptyStore
    /\ ltx \in {<<t>> : t \in LumiTransactions}
    /\ lres = NoLumi

ToLumi(lumi_size, inc_header, override_last) ==
    /\ call.op = "init"
    /\ LET r == to_lumi(ltx[1], lumi_size, inc_header, override_last)
       IN  lres' = [raised |-> r.raised, frames |-> r.frames,
                    lumi_size |-> lumi_size, inc_header |-> inc_header,
                    override_last |-> override_last]
    /\ call' = [NoCall EXCEPT !.op = "to_lumi"]
    /\ UNCHANGED <<devvars, ltx>>

NextLumi ==
    \E lumi_size \in 1..MaxLumi, inc_header \in BOOLEAN,
       override_last \in {<<>>, <<TRUE>>, <<FALSE>>} :
       ToLumi(lumi_size, inc_header, override_last)

SpecLumi == InitLumi /\ [][NextLumi]_vars

\* ------------------------------------------------------------------ claims
\* the step just taken sampled a handshake and ran the device's callback
RecvStep == nreq' = nreq + 1

\* the state follows a callback on a transaction with this opcode
Handled(opcode) ==
    /\ call.op = "recv"
    /\ req # <<>>
    /\ req[1].cmd.cmd_type = opcode

\* addresses a request or accessor call of the model can touch
ProbeAddrs == 0..(MaxAddr + (MaxLen + 1) * Pow2(MaxSize) + MaxData)

RECURSIVE Concat(_)
\* the concatenation of the data of a sequence of frames
Concat(frames) ==
    IF frames = <<>> THEN <<>>
    ELSE frames[1].data \o Concat(Tail(frames))

\* the items a step appended to the sink
Appended == SubSeq(sink', Len(sink) + 1, Len(sink'))

\* the acknowledgement an acknowledged write is answered with
ExpectedAck(t) ==
    [cmd |-> [cmd_type |-> UMI_RESP_WRITE, size |-> 0, len |-> 0, qos |-> 0,
              prot |-> 0, eom |-> 1, eof |-> 0, ex |-> 0, u |-> 0,
              hostid |-> 0],
     da |-> t.sa, sa |-> t.da, data |-> <<0>>, addr_width |-> t.addr_width]

\* C1: an acknowledged write (0x03) appends exactly one write-response with
\* size=0, len=0, eom=1, swapped addresses and a single zero byte; a posted
\* write (0x05) appends nothing; both opcodes leave the same store behind.
C1_AckAndPostedWrite ==
    [][(RecvStep /\ req'[1].cmd.cmd_type \in {UMI_REQ_WRITE, UMI_REQ_POSTED})
        => LET t == req'[1]
               ack == [t EXCEPT !.cmd.cmd_type = UMI_REQ_WRITE]
               posted == [t EXCEPT !.cmd.cmd_type = UMI_REQ_POSTED]
           IN  /\ t.cmd.cmd_type = UMI_REQ_WRITE
                    => sink' = Append(sink, ExpectedAck(t))
               /\ t.cmd.cmd_type = UMI_REQ_POSTED => sink' = sink
               /\ _on_transaction(memory, log, ack, dw, aw).memory
                    = _on_transaction(memory, log, posted, dw, aw).memory
               /\ memory' = _on_transaction(memory, log, ack, dw, aw).memory
      ]_vars

\* C2: the response built for a read request with size s, len l at address A
\* is a read-response with size s, len l, eom 1, swapped addresses and
\* (l+1)<<s payload bytes, byte i being the store's value at A+i, 0 if that
\* address was never written.
C2_ReadResponse ==
    [][(RecvStep /\ req'[1].cmd.cmd_type = UMI_REQ_READ)
        => LET t == req'[1]
               n == (t.cmd.len + 1) * (2 ^ t.cmd.size)
           IN  /\ Len(resp') = 1
               /\ resp'[1].cmd.cmd_type = UMI_RESP_READ
               /\ resp'[1].cmd.size = t.cmd.size
               /\ resp'[1].cmd.len = t.cmd.len
               /\ resp'[1].cmd.eom = 1
               /\ resp'[1].da = t.sa
               /\ resp'[1].sa = t.da
               /\ Len(resp'[1].data) = n
               /\ \A i \in 0..(n - 1) :
                     /\ (t.da + i) \in DOMAIN memory
                           => resp'[1].data[i + 1] = memory[t.da + i]
                     /\ (t.da + i) \notin written
                           => resp'[1].data[i + 1] = 0
      ]_vars

\* a read of two or more bytes that returns a written non-zero byte and the
\* zero of a never-written address
C2_Witness ==
    /\ Handled(UMI_REQ_READ)
    /\ \E i, j \in 1..Len(resp[1].data) :
          /\ resp[1].data[i] # 0
          /\ (req[1].da + j - 1) \notin written

\* the frames a step appended all carry f bytes and only the final one is last
FramesWellFormed(frames, f) ==
    \A i \in 1..Len(frames) :
       /\ Len(frames[i].data) = f
       /\ frames[i].last = (i = Len(frames))

RawOf(t, inc_header) ==
    (IF inc_header THEN header_to_bytes(t) ELSE <<>>)
        \o SubSeq(t.data, 1, Min(Len(t.data), (t.cmd.len + 1) * (2 ^ t.cmd.size)))

Max(a, b) == IF a > b THEN a ELSE b

\* C4: for every transaction with a payload, frame_size >= 1 and both values
\* of include_header, to_lumi returns max(1, ceil(len(raw)/frame_size))
\* frames without raising, each of frame_size bytes, concatenating to raw
\* followed by zero bytes only; also when raw is empty.
C4_ChunkingTotal ==
    (call.op = "to_lumi" /\ ~IsNone(ltx[1].data))
        => LET raw == RawOf(ltx[1], lres.inc_header)
               f == lres.lumi_size
           IN  /\ lres.raised = "none"
               /\ Len(lres.frames) = Max(1, CeilDiv(Len(raw), f))
               /\ \A i \in 1..Len(lres.frames) : Len(lres.frames[i].data) = f
               /\ SubSeq(Concat(lres.frames), 1, Len(raw)) = raw
               /\ \A i \in (Len(raw) + 1)..Len(Concat(lres.frames)) :
                     Concat(lres.frames)[i] = 0

\* C5: in the frames to_lumi returns, every non-final frame has last = false
\* whatever override_last is; the final frame has last = true when
\* override_last is not supplied and last = override_last when it is.
C5_LastFlag ==
    (call.op = "to_lumi" /\ lres.raised = "none")
        => LET k == Len(lres.frames)
           IN  /\ k >= 1
               /\ \A i \in 1..(k - 1) : lres.frames[i].last = FALSE
               /\ lres.override_last = <<>> => lres.frames[k].last = TRUE
               /\ lres.override_last # <<>>
                     => lres.frames[k].last = lres.override_last[1]

\* several frames, override_last = false: no frame is marked last
C5_Witness ==
    /\ call.op = "to_lumi"
    /\ lres.raised = "none"
    /\ Len(lres.frames) >= 2
    /\ lres.override_last = <<FALSE>>
    /\ \A i \in 1..Len(lres.frames) : ~lres.frames[i].last

\* C6: a transaction whose opcode is not read, acknowledged write or posted
\* write leaves the store unchanged, appends nothing and reports exactly one
\* diagnostic, with or without a logger.
C6_UnhandledOpcode ==
    [][(RecvStep /\ req'[1].cmd.cmd_type \notin
                      {UMI_REQ_READ, UMI_REQ_WRITE, UMI_REQ_POSTED})
        => /\ memory' = memory
           /\ sink' = sink
           /\ warnings' = warnings + 1
      ]_vars

\* C7: the sink receives the items in request arrival order: a callback only
\* appends, after everything earlier requests appended, its own items, and
\* the frames of a read response arrive consecutively in chunk order.
C7_ArrivalOrder ==
    [][RecvStep
        => /\ Len(sink') >= Len(sink)
           /\ SubSeq(sink', 1, Len(sink)) = sink
           /\ Len(sink_req') = Len(sink')
           /\ \A i \in 1..Len(sink') : \A j \in i..Len(sink') :
                 sink_req'[i] <= sink_req'[j]
           /\ \A i \in (Len(sink) + 1)..Len(sink') : sink_req'[i] = nreq'
           /\ req'[1].cmd.cmd_type = UMI_REQ_READ
                 => /\ FramesWellFormed(Appended, dw \div 8)
                    /\ LET r == resp'[1]
                           raw == header_to_bytes(
                                     SumiTransaction(r.cmd, r.da, r.sa, r.data, aw))
                                  \o r.data
                       IN  SubSeq(Concat(Appended), 1, Len(raw)) = raw
      ]_vars

\* two requests have both been answered: a read by frames, then a write by
\* its acknowledgement
C7_Witness ==
    /\ nreq = 2
    /\ Len(sink) >= 3
    /\ sink_req[1] = 1
    /\ sink_req[Len(sink) - 1] = 1
    /\ sink_req[Len(sink)] = 2
    /\ Handled(UMI_REQ_WRITE)

\* C8: no error escapes the handling of a transaction, and the monitor goes
\* on delivering requests; a write whose payload is shorter than total_bytes
\* is stored zero-padded.
C8_NoErrorEscapes ==
    /\ raised = "none"
    /\ alive

\* C9: after write(A, D) with N = len(D) >= 0, read(A, N) returns D and every
\* address outside [A, A+N) reads as it did before.
C9_WriteThenRead ==
    [][(ndirect' = ndirect + 1 /\ call'.op = "write")
        => LET A == call'.address
               D == call'.data
               N == Len(D)
           IN  /\ read(memory', A, N) = D
               /\ \A a \in ProbeAddrs :
                     (a < A \/ a >= A + N)
                        => read(memory', a, 1) = read(memory, a, 1)
      ]_vars

\* a direct write of several bytes into a store that already holds a non-zero
\* byte elsewhere
C9_Witness ==
    /\ call.op = "write"
    /\ Len(call.data) >= 2
    /\ \E a \in DOMAIN memory :
          /\ (a < call.address \/ a >= call.address + Len(call.data))
          /\ memory[a] # 0

\* C10: an address never written since construction or the last clear() reads
\* 0, directly and through a read request; after clear() every address reads
\* 0 and dump() is empty.
C10_ZeroDefault ==
    /\ \A a \in ProbeAddrs : a \notin written => read(memory, a, 1) = <<0>>
    /\ Handled(UMI_REQ_READ)
          => \A i \in 1..Len(resp[1].data) :
                (req[1].da + i - 1) \notin written => resp[1].data[i] = 0
    /\ call.op = "clear"
          => /\ \A a \in ProbeAddrs : read(memory, a, 1) = <<0>>
             /\ dump_memory(memory) = <<>>

\* clear() was called after an acknowledged protocol write
C10_Witness ==
    /\ call.op = "clear"
    /\ sink # <<>>
    /\ "cmd" \in DOMAIN sink[1]
    /\ sink[1].cmd.cmd_type = UMI_RESP_WRITE

\* ------------------------------------------------ __eq__ as a pure function
EqBytes == {0, 1}

EqData == UNION {[1..k -> EqBytes] : k \in 0..MaxEqData} \cup {NoneData}

EqTransactions ==
    {SumiTransaction(from_fields(opcode, size, 0, 0), da, sa, data, 8) :
        opcode \in {UMI_RESP_READ, UMI_RESP_WRITE}, size \in {0, 1},
        da \in {0, 1}, sa \in {0, 1}, data \in EqData}

\* the store, the sink and the counters of a device nothing has happened to
DeviceIdle ==
    /\ memory = EmptyStore
    /\ sink = <<>>
    /\ sink_req = <<>>
    /\ log = FALSE
    /\ warnings = 0
    /\ dw = 8
    /\ aw = 8
    /\ alive = TRUE
    /\ raised = "none"
    /\ req = <<>>
    /\ resp = <<>>
    /\ call = NoCall
    /\ ret = <<>>
    /\ nreq = 0
    /\ ndirect = 0
    /\ written = {}
    /\ latest = EmptyStore

InitEq ==
    /\ DeviceIdle
    /\ ltx \in {<<a, b>> : a \in EqTransactions, b \in EqTransactions}
    /\ lres = NoLumi

Eq ==
    /\ call.op = "init"
    /\ lres' = __eq__(ltx[1], ltx[2])
    /\ call' = [NoCall EXCEPT !.op = "eq"]
    /\ UNCHANGED <<devvars, ltx>>

NextEq == Eq

SpecEq == InitEq /\ [][NextEq]_vars

\* the first total_bytes bytes of a transaction's payload
PayloadPrefix(t) ==
    SubSeq(t.data, 1, Min(Len(t.data), (t.cmd.len + 1) * (2 ^ t.cmd.size)))

\* C11: two transactions whose opcode is not write-response are equal iff
\* their headers are identical and header bytes + payload[:total_bytes] are
\* byte-identical; payload bytes beyond total_bytes do not matter.
C11_EqualOnPrefix ==
    (/\ call.op = "eq"
     /\ ltx[1].cmd.cmd_type # UMI_RESP_WRITE
     /\ ltx[2].cmd.cmd_type # UMI_RESP_WRITE
     /\ ~IsNone(ltx[1].data)
     /\ ~IsNone(ltx[2].data))
        => /\ lres.raised = "none"
           /\ lres.result <=>
                 /\ ltx[1].cmd = ltx[2].cmd
                 /\ header_to_bytes(ltx[1]) \o PayloadPrefix(ltx[1])
                       = header_to_bytes(ltx[2]) \o PayloadPrefix(ltx[2])

\* C12: two write responses with identical headers are equal iff their
\* destination addresses are equal, whatever their payloads and source
\* addresses; two transactions whose headers differ are never equal.
C12_WriteResponseEq ==
    call.op = "eq"
        => /\ ltx[1].cmd # ltx[2].cmd
                 => lres.raised = "none" /\ lres.result = FALSE
           /\ (ltx[1].cmd = ltx[2].cmd /\ ltx[1].cmd.cmd_type = UMI_RESP_WRITE)
                 => /\ lres.raised = "none"
                    /\ lres.result <=> (ltx[1].da = ltx[2].da)

\* two write responses with the same destination, different payloads and
\* different source addresses compare equal
C12_Witness ==
    /\ call.op = "eq"
    /\ ltx[1].cmd = ltx[2].cmd
    /\ ltx[1].cmd.cmd_type = UMI_RESP_WRITE
    /\ ltx[1].da = ltx[2].da
    /\ ltx[1].sa # ltx[2].sa
    /\ ltx[1].data # ltx[2].data
    /\ lres.result = TRUE

\* ------------------------ header_to_bytes and trunc_and_pad_zeros, one call
HdrAddrs == {0, 1, 258}

HdrTransactions ==
    {SumiTransaction(from_fields(opcode, size, len, 0), da, sa, data, width) :
        opcode \in {UMI_REQ_WRITE, UMI_RESP_READ, UMI_RESP_WRITE},
        size \in 0..MaxSize, len \in 0..MaxLen,
        da \in HdrAddrs, sa \in HdrAddrs,
        data \in BytesUpTo(MaxPayload) \cup {NoneData},
        width \in AddrWidths}

InitTxn ==
    /\ DeviceIdle
    /\ ltx \in {<<t>> : t \in {x \in HdrTransactions :
                                 x.da < Pow2(x.addr_width)
                                 /\ x.sa < Pow2(x.addr_width)}}
    /\ lres = NoLumi

HeaderToBytes ==
    /\ call.op = "init"
    /\ lres' = [raised |-> "none", bytes |-> header_to_bytes(ltx[1])]
    /\ call' = [NoCall EXCEPT !.op = "header_to_bytes"]
    /\ UNCHANGED <<devvars, ltx>>

TruncAndPadZeros ==
    /\ call.op = "init"
    /\ lres' = trunc_and_pad_zeros(ltx[1])
    /\ call' = [NoCall EXCEPT !.op = "trunc_and_pad_zeros"]
    /\ UNCHANGED <<devvars, ltx>>

NextTxn ==
    \/ HeaderToBytes
    \/ TruncAndPadZeros

SpecTxn == InitTxn /\ [][NextTxn]_vars

\* C13: trunc_and_pad_zeros leaves exactly n = total_bytes bytes: p[:n] when
\* len(p) >= n, and n - len(p) zero bytes followed by p when len(p) < n.
C13_TruncAndPad ==
    (call.op = "trunc_and_pad_zeros" /\ ~IsNone(ltx[1].data))
        => LET p == ltx[1].data
               n == (ltx[1].cmd.len + 1) * (2 ^ ltx[1].cmd.size)
           IN  /\ lres.raised = "none"
               /\ Len(lres.data) = n
               /\ Len(p) >= n => lres.data = SubSeq(p, 1, n)
               /\ Len(p) < n => lres.data = [i \in 1..(n - Len(p)) |-> 0] \o p

\* C17: whatever the opcode, header_to_bytes returns 4 + 2*(address_width/8)
\* bytes: the 4 header bytes, the destination address little-endian, then the
\* source address little-endian, never omitted.
C17_HeaderLayout ==
    call.op = "header_to_bytes"
        => LET t == ltx[1]
               k == t.addr_width \div 8
               b == lres.bytes
           IN  /\ Len(b) = 4 + 2 * k
               /\ b[1] = t.cmd.cmd_type + 32 * t.cmd.size
               /\ b[2] = t.cmd.len
               /\ b[3] = t.cmd.qos + 16 * t.cmd.prot + 64 * t.cmd.eom
                            + 128 * t.cmd.eof
               /\ b[4] = t.cmd.ex + 2 * t.cmd.u + 8 * t.cmd.hostid
               /\ \A j \in 1..k :
                     /\ b[4 + j] = (t.da \div (256 ^ (j - 1))) % 256
                     /\ b[4 + k + j] = (t.sa \div (256 ^ (j - 1))) % 256

\* a read response, whose opcode has no source address, over 16-bit addresses:
\* the two source address bytes are there, low byte first
C17_Witness ==
    /\ call.op = "header_to_bytes"
    /\ ~has_source_addr(ltx[1].cmd.cmd_type)
    /\ ltx[1].addr_width = 16
    /\ ltx[1].sa = 258
    /\ Len(lres.bytes) = 8
    /\ lres.bytes[7] = 2
    /\ lres.bytes[8] = 1


\* ------------------------------------------------- command header, in isolation
SampleBytes == {0, 90, 165, 255}

Opcodes ==
    {UMI_INVALID, UMI_REQ_READ, UMI_REQ_WRITE, UMI_REQ_POSTED, UMI_REQ_RDMA,
     UMI_REQ_ATOMIC, UMI_REQ_USER0, UMI_REQ_FUTURE0, UMI_REQ_ERROR,
     UMI_REQ_LINK, UMI_RESP_READ, UMI_RESP_WRITE, UMI_RESP_USER0,
     UMI_RESP_USER1, UMI_RESP_FUTURE0, UMI_RESP_FUTURE1, UMI_RESP_LINK}

\* every value an opcode byte's low six bits can take
OpcodeValues == 0..63

FieldNames == {CmdFields[i].name : i \in 1..Len(CmdFields)}

FieldMax(name) == Pow2(CmdFields[FieldIndex(name)].width) - 1

\* headers with every size and len, and headers with every field at 0, at its
\* largest value, or at an alternating bit pattern
CmdHeaders ==
    {from_fields(UMI_REQ_WRITE, s, l, 0) : s \in 0..7, l \in 0..255}
      \cup {[name \in FieldNames |-> IF name \in S THEN FieldMax(name) ELSE 0] :
               S \in SUBSET FieldNames}
      \cup {[name \in FieldNames |-> p % (FieldMax(name) + 1)] : p \in {85, 170}}

\* the 32-bit word whose little-endian bytes are bs
WordOfBytes(bs) == [b \in 0..(CmdWidth - 1) |-> BitOf(bs[(b \div 8) + 1], b % 8)]

CmdWords == {WordOfBytes(bs) : bs \in [1..4 -> SampleBytes]}

CmdInputs ==
    {[kind |-> "cmd", cmd |-> h] : h \in CmdHeaders}
      \cup {[kind |-> "word", word |-> w] : w \in CmdWords}
      \cup {[kind |-> "opcode", value |-> v] : v \in OpcodeValues}

InitCmd ==
    /\ DeviceIdle
    /\ ltx \in {<<x>> : x \in CmdInputs}
    /\ lres = NoLumi

\* the byte count of a header, by the properties and by the inline expression
ByteCount ==
    /\ ltx[1].kind = "cmd"
    /\ call.op = "init"
    /\ lres' = [bytes_per_word |-> bytes_per_word(ltx[1].cmd),
                transfer_count |-> transfer_count(ltx[1].cmd),
                total_bytes |-> total_bytes(ltx[1].cmd),
                shifted |-> ShiftedLen(ltx[1].cmd)]
    /\ call' = [NoCall EXCEPT !.op = "byte_count"]
    /\ UNCHANGED <<devvars, ltx>>

\* int(cmd) followed by SumiCmd.from_int
PackUnpack ==
    /\ ltx[1].kind = "cmd"
    /\ call.op = "init"
    /\ lres' = [word |-> pack(ltx[1].cmd),
                back |-> from_int(pack(ltx[1].cmd))]
    /\ call' = [NoCall EXCEPT !.op = "pack_unpack"]
    /\ UNCHANGED <<devvars, ltx>>

\* SumiCmd.from_int followed by int(cmd)
UnpackPack ==
    /\ ltx[1].kind = "word"
    /\ call.op = "init"
    /\ lres' = [cmd |-> from_int(ltx[1].word),
                word |-> pack(from_int(ltx[1].word))]
    /\ call' = [NoCall EXCEPT !.op = "unpack_pack"]
    /\ UNCHANGED <<devvars, ltx>>

\* the SumiCmdType classification methods on one integer value
Classify ==
    /\ ltx[1].kind = "opcode"
    /\ call.op = "init"
    /\ lres' = [is_request |-> is_request(ltx[1].value),
                is_response |-> is_response(ltx[1].value),
                has_data |-> has_data(ltx[1].value),
                has_source_addr |-> has_source_addr(ltx[1].value),
                supports_streaming |-> supports_streaming(ltx[1].value)]
    /\ call' = [NoCall EXCEPT !.op = "classify"]
    /\ UNCHANGED <<devvars, ltx>>

\* an opcode of the enum put in a header, packed, and decoded from the wire
Carry ==
    /\ ltx[1].kind = "opcode"
    /\ ltx[1].value \in Opcodes
    /\ call.op = "init"
    /\ \E h \in {from_fields(ltx[1].value, 0, 0, 0)} :
          lres' = IF InvalidFieldValue(h)
                  THEN [raised |-> "InvalidFieldValue",
                        decoded |-> <<>>]
                  ELSE [raised |-> "none",
                        decoded |-> <<from_int(pack(h)).cmd_type>>]
    /\ call' = [NoCall EXCEPT !.op = "carry"]
    /\ UNCHANGED <<devvars, ltx>>

NextCmd ==
    \/ ByteCount
    \/ PackUnpack
    \/ UnpackPack
    \/ Classify
    \/ Carry

SpecCmd == InitCmd /\ [][NextCmd]_vars

\* C14: the byte count of a value is bytes_per_word * transfer_count, equal to
\* (1 << size) * (len + 1), never less than one word, and the inline
\* expression (len + 1) << size of the other sites gives the same number.
C14_TotalBytes ==
    call.op = "byte_count" =>
        LET c == ltx[1].cmd
        IN  /\ lres.total_bytes = lres.bytes_per_word * lres.transfer_count
            /\ lres.total_bytes = Pow2(c.size) * (c.len + 1)
            /\ lres.total_bytes >= lres.bytes_per_word
            /\ lres.bytes_per_word >= 1
            /\ lres.shifted = lres.total_bytes

C14_Witness ==
    /\ call.op = "byte_count"
    /\ ltx[1].cmd.size = 2
    /\ ltx[1].cmd.len = 3
    /\ lres.total_bytes = 16
    /\ lres.shifted = 16

\* every bit of the word belongs to exactly one declared field
LayoutPartitions ==
    \A b \in 0..(CmdWidth - 1) :
       \E i \in 1..Len(CmdFields) :
          /\ b >= CmdFields[i].offset
          /\ b < CmdFields[i].offset + CmdFields[i].width
          /\ \A j \in 1..Len(CmdFields) :
                (b >= CmdFields[j].offset
                   /\ b < CmdFields[j].offset + CmdFields[j].width) => j = i

RECURSIVE WidthSum(_)
WidthSum(n) == IF n = 0 THEN 0 ELSE CmdFields[n].width + WidthSum(n - 1)

\* C15: the fields' bit ranges are disjoint and cover all 32 bits, a header
\* with every field in range survives packing and unpacking, and a 32-bit
\* word survives unpacking and packing.
C15_RoundTrip ==
    /\ call.op = "pack_unpack" =>
          /\ LayoutPartitions
          /\ WidthSum(Len(CmdFields)) = CmdWidth
          /\ ~InvalidFieldValue(ltx[1].cmd)
          /\ lres.back = ltx[1].cmd
    /\ call.op = "unpack_pack" =>
          /\ lres.word = ltx[1].word
          /\ ~InvalidFieldValue(lres.cmd)

C15_Witness ==
    /\ call.op = "pack_unpack"
    /\ ltx[1].cmd.cmd_type = 31
    /\ ltx[1].cmd.size = 0
    /\ ltx[1].cmd.len = 255
    /\ ltx[1].cmd.hostid = 31
    /\ lres.back = ltx[1].cmd
    /\ lres.word[4] = 1
    /\ lres.word[5] = 0

C15_WitnessWord ==
    /\ call.op = "unpack_pack"
    /\ ltx[1].word = WordOfBytes(<<165, 90, 255, 165>>)
    /\ lres.cmd.cmd_type = 5
    /\ lres.cmd.size = 5
    /\ lres.cmd.len = 90

\* C16: no value is both a request and a response, every listed opcode but
\* 0x00 is exactly one of them, streaming is supported only by write, posted
\* write and read response, only requests carry a source address, and a
\* value outside the list has every classification false.
C16_Classification ==
    call.op = "classify" =>
        LET v == ltx[1].value
        IN  /\ ~(lres.is_request /\ lres.is_response)
            /\ (v \in Opcodes \ {UMI_INVALID}) =>
                  (lres.is_request \/ lres.is_response)
            /\ lres.supports_streaming <=> v \in {3, 5, 2}
            /\ lres.supports_streaming => lres.has_data
            /\ lres.has_source_addr => lres.is_request
            /\ (v \in {2, 8, 12}) => lres.has_data
            /\ (v \in {6, 10}) => ~lres.has_data
            /\ (v \notin Opcodes) =>
                  /\ ~lres.is_request
                  /\ ~lres.is_response
                  /\ ~lres.has_data
                  /\ ~lres.has_source_addr
                  /\ ~lres.supports_streaming

C16_Witness ==
    /\ call.op = "classify"
    /\ ltx[1].value = UMI_REQ_LINK
    /\ lres.is_request
    /\ ~lres.is_response
    /\ ~lres.has_source_addr

\* C19: every opcode of the enum fits the 5-bit opcode field, so a header
\* built with it packs and decodes back to the same opcode.
C19_OpcodeFitsField ==
    call.op = "carry" =>
        /\ ltx[1].value < Pow2(CmdFields[FieldIndex("cmd_type")].width)
        /\ lres.raised = "none"
        /\ lres.decoded = <<ltx[1].value>>


\* the byte the most recent write supplied for an address since the last
\* clear(), 0 if there is none
LatestByte(a) == IF a \in DOMAIN latest THEN latest[a] ELSE 0

\* C18: every address reads as the byte the most recent write covering it
\* supplied since the last clear(), 0 if there is none, whatever writes,
\* direct calls, reads and unhandled opcodes came before; byte i of the
\* response to a read request at A is that byte for A+i.
C18_LastWriterWins ==
    /\ \A a \in ProbeAddrs : read(memory, a, 1) = <<LatestByte(a)>>
    /\ Handled(UMI_REQ_READ)
          => /\ Len(resp) = 1
             /\ Len(resp[1].data) = (req[1].cmd.len + 1) * (2 ^ req[1].cmd.size)
             /\ \A i \in 1..Len(resp[1].data) :
                   resp[1].data[i] = LatestByte(req[1].da + i - 1)

\* a read request of two bytes answered after an acknowledged write and a
\* direct call, the two addresses holding different bytes
C18_Witness ==
    /\ Handled(UMI_REQ_READ)
    /\ nreq = 2
    /\ ndirect = 1
    /\ sink # <<>>
    /\ "cmd" \in DOMAIN sink[1]
    /\ sink[1].cmd.cmd_type = UMI_RESP_WRITE
    /\ req[1].da = 0
    /\ resp[1].data = <<1, 0>>
    /\ DOMAIN memory = {0, 1}

\* C20: a write request with total_bytes = n either leaves all n addresses
\* from the destination address holding the payload bytes, or leaves the store
\* as it was and emits no response.
C20_WriteAllOrNothing ==
    [][(RecvStep /\ req'[1].cmd.cmd_type \in {UMI_REQ_WRITE, UMI_REQ_POSTED})
        => LET t == req'[1]
               n == (t.cmd.len + 1) * (2 ^ t.cmd.size)
           IN  \/ /\ ~IsNone(t.data)
                  /\ Len(t.data) >= n
                  /\ read(memory', t.da, n) = SubSeq(t.data, 1, n)
               \/ /\ memory' = memory
                  /\ sink' = sink
      ]_vars


\* the step just taken was a direct call of this accessor
DirectCall(op) == ndirect' = ndirect + 1 /\ call'.op = op

\* C21: a read request, read() and dump_memory() leave the store as it was,
\* same addresses and same values, no zero entry created for an address never
\* written; the store changes only by a write request, write() or clear().
C21_ReadsLeaveStore ==
    [][/\ ((RecvStep /\ req'[1].cmd.cmd_type = UMI_REQ_READ)
             \/ DirectCall("read") \/ DirectCall("dump"))
          => /\ DOMAIN memory' = DOMAIN memory
             /\ dump_memory(memory') = dump_memory(memory)
       /\ (memory' # memory)
          => \/ (RecvStep
                   /\ req'[1].cmd.cmd_type \in {UMI_REQ_WRITE, UMI_REQ_POSTED})
             \/ DirectCall("write")
             \/ DirectCall("clear")
      ]_vars

\* a read request answered from a store that holds a byte, the read covering
\* an address never written
C21_Witness ==
    /\ Handled(UMI_REQ_READ)
    /\ memory # EmptyStore
    /\ \E i \in 1..Len(resp[1].data) : (req[1].da + i - 1) \notin DOMAIN memory
    /\ \E i \in 1..Len(resp[1].data) : (req[1].da + i - 1) \in DOMAIN memory

====
